---- MODULE Spec2Model ----
(***************************************************************************)
(* Model of the findid command line program (libcomcat/bin/findid.py).     *)
(*                                                                         *)
(* One behaviour is one run of main() after parser.parse_args() returned   *)
(* the namespace args.  The steps of main() are the actions; the history   *)
(* variables calls, loggerCalls, stdout, errlog and files record what the  *)
(* run did to the outside world.                                           *)
(*                                                                         *)
(* An optional value (None or a value) is a sequence of length 0 or 1.     *)
(* A string that the code takes apart (the -o path) is a sequence of       *)
(* one-character strings.  Floats are integers.                            *)
(***************************************************************************)
EXTENDS Integers, Sequences, FiniteSets, TLC

VARIABLES args, pc, twindow, radius, event_df, nearest, calls, loggerCalls,
          stdout, errlog, files, exitcode, exc

vars == <<args, pc, twindow, radius, event_df, nearest, calls, loggerCalls,
          stdout, errlog, files, exitcode, exc>>

----------------------------------------------------------------------------
(* Program constants *)

SEARCH_RADIUS == 100

TIME_WINDOW == 16

(* Bound of the model: the number of records the catalog service returns *)
MaxEvents == 2

----------------------------------------------------------------------------
(* Optional values *)

None == <<>>

Some(v) == <<v>>

IsNone(o) == o = <<>>

Val(o) == o[1]

----------------------------------------------------------------------------
(* Input domains *)

TimeValues == {100, 110}

LatValues == {-91, 35, 91}

LonValues == {-181, -117, 181}

WindowValues == {None, Some(0), Some(30)}

RadiusValues == {None, Some(0), Some(200)}

OutfileValues ==
    { None,
      Some(<<>>),
      Some(<<"o", ".", "c", "s", "v">>),
      Some(<<"o", ".", "x", "l", "s", "x">>),
      Some(<<"o", ".", "t", "x", "t">>),
      Some(<<".", "c", "s", "v">>),
      Some(<<"o", ".", "C", "S", "V">>),
      Some(<<"d", ".", "c", "s", "v", "/", "o">>) }

CandidateTimes == {100, 110, 130}

CandidateDistances == {0, 100, 150}

(* What the catalog service holds around the target: records in encounter *)
(* order, the i-th with id i, each with its time and its great-circle     *)
(* distance from the target.                                               *)
Catalogs ==
    UNION { { [i \in 1..n |-> [id |-> i, time |-> f[i][1], dist |-> f[i][2]]] :
                f \in [1..n -> CandidateTimes \X CandidateDistances] } :
            n \in 0..MaxEvents }

----------------------------------------------------------------------------
(* os.path.splitext *)

RFind(p, c) ==
    LET hits == {i \in 1..Len(p) : p[i] = c}
    IN  IF hits = {} THEN 0 ELSE CHOOSE i \in hits : \A j \in hits : j <= i

splitext(p) ==
    LET sepIndex == RFind(p, "/")
        dotIndex == RFind(p, ".")
    IN  IF dotIndex > sepIndex
           /\ \E i \in (sepIndex + 1)..(dotIndex - 1) : p[i] # "."
        THEN <<SubSeq(p, 1, dotIndex - 1), SubSeq(p, dotIndex, Len(p))>>
        ELSE <<p, <<>> >>

(* a third extension accepted by the check but unknown to the writer *)
supported_m ==
    { <<".", "x", "l", "s", "x">>, <<".", "c", "s", "v">>,
      <<".", "t", "x", "t">> }

supported == { <<".", "x", "l", "s", "x">>, <<".", "c", "s", "v">> }

----------------------------------------------------------------------------
(* Python truthiness of an optional float / optional string *)

Truthy(o) == ~IsNone(o) /\ Val(o) # 0

TruthyStr(o) == ~IsNone(o) /\ Val(o) # <<>>

Bool2Int(b) == IF b THEN 1 ELSE 0

(* argsum with the -u flag left out of the sum *)
argsum_m(a) == Bool2Int(a.print_all) + Bool2Int(a.print_verbose)

argsum(a) == Bool2Int(a.print_all) + Bool2Int(a.print_url)
             + Bool2Int(a.print_verbose)

----------------------------------------------------------------------------
(* Nearest-event ranker: libcomcat.dataframes.find_nearby_events *)

Abs(x) == IF x < 0 THEN -x ELSE x

InRange(lat, lon) == lat >= -90 /\ lat <= 90 /\ lon >= -180 /\ lon <= 180

Ranked(c, time) ==
    [id |-> c.id, time |-> c.time, distance_km |-> c.dist,
     time_delta_s |-> Abs(c.time - time)]

KeyLeq(r1, r2) ==
    \/ r1.time_delta_s < r2.time_delta_s
    \/ r1.time_delta_s = r2.time_delta_s /\ r1.distance_km <= r2.distance_km

RECURSIVE FilterRank(_, _, _, _)
FilterRank(catalog, time, window_s, radius_km) ==
    IF catalog = <<>> THEN <<>>
    ELSE LET r == Ranked(Head(catalog), time)
             rest == FilterRank(Tail(catalog), time, window_s, radius_km)
         IN  IF r.distance_km <= radius_km /\ r.time_delta_s <= window_s
             THEN <<r>> \o rest
             ELSE rest

(* insertion after every row whose key is not larger: a stable sort *)
RECURSIVE Insert(_, _)
Insert(r, sorted) ==
    IF sorted = <<>> THEN <<r>>
    ELSE IF KeyLeq(Head(sorted), r)
         THEN <<Head(sorted)>> \o Insert(r, Tail(sorted))
         ELSE <<r>> \o sorted

RECURSIVE SortRows(_)
SortRows(rows) ==
    IF rows = <<>> THEN <<>>
    ELSE Insert(rows[Len(rows)], SortRows(SubSeq(rows, 1, Len(rows) - 1)))

RankedSet(catalog, time, window_s, radius_km) ==
    SortRows(FilterRank(catalog, time, window_s, radius_km))

(* "no match" is signalled either as None or as an empty result set *)
find_nearby_events(catalog, time, window_s, radius_km) ==
    LET rows == RankedSet(catalog, time, window_s, radius_km)
    IN  IF rows = <<>> THEN {None, Some(<<>>)} ELSE {Some(rows)}

----------------------------------------------------------------------------
(* Effects shared by the steps of main() *)

Line(kind, rows) == [kind |-> kind, rows |-> rows]

(* sys.exit(code) *)
Exit(code) ==
    /\ exitcode' = Some(code)
    /\ pc' = "done"

(* an exception nobody catches: traceback, exit status 1 *)
Raise(name) ==
    /\ exc' = name
    /\ exitcode' = Some(1)
    /\ pc' = "done"

----------------------------------------------------------------------------
(* State after parser.parse_args() *)

Args ==
    [time : TimeValues, lat : LatValues, lon : LonValues,
     window : WindowValues, radius : RadiusValues,
     print_all : BOOLEAN, print_url : BOOLEAN, print_verbose : BOOLEAN,
     outfile : OutfileValues]

Init ==
    /\ args \in Args
    /\ pc = "flags"
    /\ twindow = None
    /\ radius = None
    /\ event_df = None
    /\ nearest = None
    /\ calls = <<>>
    /\ loggerCalls = 0
    /\ stdout = <<>>
    /\ errlog = <<>>
    /\ files = {}
    /\ exitcode = None
    /\ exc = ""

----------------------------------------------------------------------------
(* main() *)

(* the trap firing only when all three flags are set *)
ExclusiveViolation_m(a) == argsum(a) > 2

ExclusiveViolation(a) == argsum(a) > 1

CheckExclusive ==
    /\ pc = "flags"
    /\ IF ExclusiveViolation(args)
       THEN /\ stdout' = Append(stdout, Line("usage_exclusive", <<>>))
            /\ Exit(1)
       ELSE /\ pc' = "outfile"
            /\ UNCHANGED <<stdout, exitcode>>
    /\ UNCHANGED <<args, twindow, radius, event_df, nearest, calls,
                   loggerCalls, errlog, files, exc>>

(* the trap with the "not" dropped *)
OutfileWithoutAll_m(a) == ~IsNone(a.outfile) /\ a.print_all

OutfileWithoutAll(a) == ~IsNone(a.outfile) /\ ~a.print_all

CheckOutfileNeedsAll ==
    /\ pc = "outfile"
    /\ IF OutfileWithoutAll(args)
       THEN /\ stdout' = Append(stdout, Line("usage_a_with_o", <<>>))
            /\ Exit(1)
       ELSE /\ pc' = "extension"
            /\ UNCHANGED <<stdout, exitcode>>
    /\ UNCHANGED <<args, twindow, radius, event_df, nearest, calls,
                   loggerCalls, errlog, files, exc>>

UnsupportedExtension(a) ==
    ~IsNone(a.outfile) /\ splitext(Val(a.outfile))[2] \notin supported

CheckExtension ==
    /\ pc = "extension"
    /\ IF UnsupportedExtension(args)
       THEN /\ stdout' = Append(stdout, Line("usage_extension", <<>>))
            /\ Exit(1)
       ELSE /\ pc' = "logger"
            /\ UNCHANGED <<stdout, exitcode>>
    /\ UNCHANGED <<args, twindow, radius, event_df, nearest, calls,
                   loggerCalls, errlog, files, exc>>

SetupLogger ==
    /\ pc = "logger"
    /\ loggerCalls' = loggerCalls + 1
    /\ pc' = "params"
    /\ UNCHANGED <<args, twindow, radius, event_df, nearest, calls,
                   stdout, errlog, files, exitcode, exc>>

Twindow(a) == IF Truthy(a.window) THEN Val(a.window) ELSE TIME_WINDOW

Radius(a) == IF Truthy(a.radius) THEN Val(a.radius) ELSE SEARCH_RADIUS

SetParams ==
    /\ pc = "params"
    /\ twindow' = Some(Twindow(args))
    /\ radius' = Some(Radius(args))
    /\ pc' = "search"
    /\ UNCHANGED <<args, event_df, nearest, calls, loggerCalls,
                   stdout, errlog, files, exitcode, exc>>

Call(a, tw, rad) ==
    [time |-> a.time, lat |-> a.lat, lon |-> a.lon,
     twindow |-> tw, radius |-> rad]

Search ==
    /\ pc = "search"
    /\ calls' = Append(calls, Call(args, Val(twindow), Val(radius)))
    /\ IF InRange(args.lat, args.lon)
       THEN /\ \E catalog \in Catalogs :
                 event_df' \in find_nearby_events(catalog, args.time,
                                                  Val(twindow), Val(radius))
            /\ pc' = "check"
            /\ UNCHANGED <<exitcode, exc>>
       ELSE /\ Raise("ValidationError")
            /\ UNCHANGED event_df
    /\ UNCHANGED <<args, twindow, radius, nearest, loggerCalls,
                   stdout, errlog, files>>

(* an automatic retry with a wider radius instead of the exit *)
NoMatch_m ==
    /\ radius' = Some(2 * SEARCH_RADIUS)
    /\ pc' = "search"
    /\ UNCHANGED <<args, twindow, event_df, nearest, calls, loggerCalls,
                   stdout, errlog, files, exitcode, exc>>

NoMatch ==
    /\ errlog' = Append(errlog, "No events found")
    /\ Exit(0)
    /\ UNCHANGED <<args, twindow, radius, event_df, nearest, calls,
                   loggerCalls, stdout, files, exc>>

CheckResult ==
    /\ pc = "check"
    /\ IF IsNone(event_df)
       THEN NoMatch
       ELSE /\ pc' = "nearest"
            /\ UNCHANGED <<args, twindow, radius, event_df, nearest, calls,
                           loggerCalls, stdout, errlog, files, exitcode, exc>>

(* the last row instead of the first *)
iloc0_m(df) == df[Len(df)]

(* event_df.iloc[0] *)
iloc0(df) == df[1]

TakeNearest ==
    /\ pc = "nearest"
    /\ IF Val(event_df) = <<>>
       THEN /\ Raise("IndexError")
            /\ UNCHANGED nearest
       ELSE /\ nearest' = Some(iloc0(Val(event_df)))
            /\ pc' = "present"
            /\ UNCHANGED <<exitcode, exc>>
    /\ UNCHANGED <<args, twindow, radius, event_df, calls, loggerCalls,
                   stdout, errlog, files>>

FileFormat(path) ==
    IF splitext(path)[2] = <<".", "x", "l", "s", "x">> THEN "excel" ELSE "csv"

PrintAll ==
    /\ pc = "present"
    /\ args.print_all
    /\ IF ~TruthyStr(args.outfile)
       THEN /\ stdout' = Append(stdout, Line("table", Val(event_df)))
            /\ UNCHANGED files
       ELSE /\ files' = files \cup
                  { [path |-> Val(args.outfile),
                     format |-> FileFormat(Val(args.outfile)),
                     rows |-> Val(event_df)] }
            /\ stdout' = Append(stdout, Line("wrote", Val(event_df)))
    /\ Exit(0)
    /\ UNCHANGED <<args, twindow, radius, event_df, nearest, calls,
                   loggerCalls, errlog, exc>>

PrintVerbose ==
    /\ pc = "present"
    /\ ~args.print_all
    /\ args.print_verbose
    /\ stdout' = Append(stdout, Line("verbose", <<Val(nearest)>>))
    /\ Exit(0)
    /\ UNCHANGED <<args, twindow, radius, event_df, nearest, calls,
                   loggerCalls, errlog, files, exc>>

PrintUrl ==
    /\ pc = "present"
    /\ ~args.print_all
    /\ ~args.print_verbose
    /\ args.print_url
    /\ stdout' = Append(stdout, Line("url", <<Val(nearest)>>))
    /\ Exit(0)
    /\ UNCHANGED <<args, twindow, radius, event_df, nearest, calls,
                   loggerCalls, errlog, files, exc>>

(* nearest is one row, nearest['id'] is the scalar id of that row (as it *)
(* is used in the verbose dump); a scalar has no attribute .values, so   *)
(* evaluating the argument of print raises before anything is printed.   *)
PrintId ==
    /\ pc = "present"
    /\ ~args.print_all
    /\ ~args.print_verbose
    /\ ~args.print_url
    /\ Raise("AttributeError")
    /\ UNCHANGED <<args, twindow, radius, event_df, nearest, calls,
                   loggerCalls, stdout, errlog, files>>

Next ==
    \/ CheckExclusive
    \/ CheckOutfileNeedsAll
    \/ CheckExtension
    \/ SetupLogger
    \/ SetParams
    \/ Search
    \/ CheckResult
    \/ TakeNearest
    \/ PrintAll
    \/ PrintVerbose
    \/ PrintUrl
    \/ PrintId

Spec == Init /\ [][Next]_vars

----------------------------------------------------------------------------
(* Properties *)

Ext(a) == splitext(Val(a.outfile))[2]

Presentations ==
    {i \in DOMAIN stdout : stdout[i].kind \in {"table", "wrote", "verbose", "url", "id"}}

NoEvents == IsNone(event_df) \/ Val(event_df) = <<>>

(* C1: with two or more of -a, -u, -v set the run stops at the flag trap: *)
(* it exits with code 1 and never calls setup_logger or                   *)
(* find_nearby_events and writes no file.                                 *)
C1_NoPartialWork ==
    argsum(args) > 1 =>
        /\ pc \in {"flags", "done"}
        /\ loggerCalls = 0
        /\ calls = <<>>
        /\ files = {}
        /\ pc = "done" => exitcode = Some(1) /\ exc = ""

C1_Witness ==
    argsum(args) > 1 /\ pc = "done" /\ exitcode = Some(1)

(* C2 as stated: with -a and -u the run ends with exit code 1 and nothing *)
(* was written to standard output.                                        *)
C2_NoOutputAtAll ==
    args.print_all /\ args.print_url =>
        /\ stdout = <<>>
        /\ pc = "done" => exitcode = Some(1)

(* C2 amended: with -a and -u the run ends with exit code 1 and the only  *)
(* line on standard output is the usage message of the flag trap; no      *)
(* table, field dump, url or id is printed.                               *)
C2_OnlyUsageMessage ==
    args.print_all /\ args.print_url =>
        /\ pc # "done" => stdout = <<>>
        /\ pc = "done" => /\ exitcode = Some(1)
                          /\ exc = ""
                          /\ stdout = <<Line("usage_exclusive", <<>>)>>
        /\ Presentations = {}

C2_Witness ==
    /\ args.print_all /\ args.print_url /\ ~args.print_verbose
    /\ pc = "done"
    /\ Len(stdout) = 1

(* C3: with -o given and -a not set the run exits with code 1 before      *)
(* find_nearby_events is called and without writing a file, whatever the  *)
(* extension and whether or not -u or -v is set.                          *)
C3_OutfileNeedsAll ==
    ~IsNone(args.outfile) /\ ~args.print_all =>
        /\ pc \in {"flags", "outfile", "done"}
        /\ calls = <<>>
        /\ files = {}
        /\ pc = "done" => exitcode = Some(1) /\ exc = ""

C3_Witness ==
    /\ ~IsNone(args.outfile) /\ ~args.print_all
    /\ Ext(args) \in supported
    /\ argsum(args) = 1
    /\ pc = "done"
    /\ stdout = <<Line("usage_a_with_o", <<>>)>>

(* C4: a file is written only under a path whose extension is exactly     *)
(* .xlsx or .csv, by to_excel for .xlsx and by to_csv for .csv; with any  *)
(* other extension the run exits with code 1 before find_nearby_events.   *)
C4_OnlySupportedExtensions ==
    /\ \A f \in files :
          /\ f.path = Val(args.outfile)
          /\ f.format = "excel" <=> splitext(f.path)[2] = <<".", "x", "l", "s", "x">>
          /\ f.format = "csv" <=> splitext(f.path)[2] = <<".", "c", "s", "v">>
    /\ ~IsNone(args.outfile)
         /\ Ext(args) \notin { <<".", "x", "l", "s", "x">>, <<".", "c", "s", "v">> } =>
          /\ calls = <<>>
          /\ files = {}
          /\ pc = "done" => exitcode = Some(1)

C4_Witness ==
    /\ pc = "done"
    /\ \E f \in files : f.format = "csv" /\ f.rows # <<>>

(* C5: a search with in-range coordinates that finds no events, returned  *)
(* as None or as an empty result set, is logged as an error, prints       *)
(* nothing, writes no file and exits with code 0 without an exception.    *)
C5_NoMatchExitsZero ==
    pc = "done" /\ calls # <<>> /\ InRange(args.lat, args.lon) /\ NoEvents =>
        /\ errlog # <<>>
        /\ stdout = <<>>
        /\ files = {}
        /\ exitcode = Some(0)
        /\ exc = ""

(* C6: with a latitude outside [-90, 90] or a longitude outside           *)
(* [-180, 180] find_nearby_events is never called and the run exits with  *)
(* code 1.                                                                *)
C6_NoCallOutOfRange ==
    ~InRange(args.lat, args.lon) =>
        /\ calls = <<>>
        /\ pc = "done" => exitcode = Some(1)

(* C7: the window and radius passed to find_nearby_events are the         *)
(* defaults only if -w / -r is unspecified; a specified value, 0          *)
(* included, is passed as it is.                                          *)
C7_SpecifiedValuePassed ==
    \A i \in DOMAIN calls :
        /\ calls[i].twindow =
              IF IsNone(args.window) THEN TIME_WINDOW ELSE Val(args.window)
        /\ calls[i].radius =
              IF IsNone(args.radius) THEN SEARCH_RADIUS ELSE Val(args.radius)

(* C8: the event presented in a single-event mode is the first row of the *)
(* result set, and no row of the result set has a smaller                 *)
(* (time_delta_s, distance_km) key; among rows with the same key it is    *)
(* the one encountered first.                                             *)
C8_NearestIsFirstAndSmallest ==
    /\ ~IsNone(nearest) => Val(nearest) = Val(event_df)[1]
    /\ \A i \in DOMAIN stdout :
          stdout[i].kind \in {"verbose", "url", "id"} =>
              LET rows == Val(event_df)
                  shown == stdout[i].rows[1]
              IN  /\ shown = rows[1]
                  /\ \A j \in DOMAIN rows :
                        /\ KeyLeq(shown, rows[j])
                        /\ KeyLeq(rows[j], shown) => shown.id <= rows[j].id

C8_Witness ==
    /\ pc = "done"
    /\ \E i \in DOMAIN stdout : stdout[i].kind = "url"
    /\ Len(Val(event_df)) >= 2
    /\ ~KeyLeq(Val(event_df)[2], Val(event_df)[1])
    /\ Val(event_df)[1].id > Val(event_df)[2].id

(* C9: a run that passed the flag checks and got a non-empty result set   *)
(* ends with exit code 0 and exactly one presentation; the id is          *)
(* presented exactly if none of -a, -u, -v is set, and with -a and -o the *)
(* table goes to the file and not to standard output.                     *)
C9_ExactlyOnePresentation ==
    pc = "done" /\ ~IsNone(nearest) =>
        /\ exitcode = Some(0)
        /\ exc = ""
        /\ Cardinality(Presentations) = 1
        /\ (\E i \in DOMAIN stdout : stdout[i].kind = "id") <=> argsum(args) = 0
        /\ args.print_all /\ TruthyStr(args.outfile) =>
              /\ files # {}
              /\ \A i \in DOMAIN stdout : stdout[i].kind # "table"

(* C10: find_nearby_events is called at most once, with the window and    *)
(* radius computed before the call and never changed afterwards; after   *)
(* the call the run never goes back to the search, and the step that      *)
(* finds the result empty ends the run.                                   *)
C10_SingleQuery ==
    [][ /\ Len(calls') <= 1
        /\ calls' # calls =>
              /\ calls'[1].twindow = Val(twindow)
              /\ calls'[1].radius = Val(radius)
        /\ calls # <<>> =>
              calls' = calls /\ twindow' = twindow /\ radius' = radius
        /\ calls # <<>> => pc' \in {"check", "nearest", "present", "done"}
        /\ pc = "check" /\ IsNone(event_df) =>
              pc' = "done" /\ exitcode' = Some(0)
        /\ pc = "nearest" /\ Val(event_df) = <<>> => pc' = "done"
      ]_vars

C10_Witness ==
    /\ pc = "done"
    /\ Len(calls) = 1
    /\ IsNone(event_df)
    /\ InRange(args.lat, args.lon)
    /\ exitcode = Some(0)

====
